---- MODULE Spec2Model ----
(***************************************************************************)
(* State-machine model of the contract OrganDigitalTwinFHE                 *)
(* (src/unnamed/part_000): encrypted organ twins, simulation requests sent *)
(* to a decryption oracle, the oracle's callbacks, and the encrypted       *)
(* per-organ-type counters.                                                *)
(*                                                                         *)
(* Every public function is one action.  A Solidity transaction is atomic: *)
(* a call that reverts leaves no trace in the contract storage, the oracle *)
(* or the event log, so a failing call is a step that changes nothing; the *)
(* revert reason it returns to its caller is given, for every state and    *)
(* every argument, by the ...Outcome operators, which run through the      *)
(* function's checks in the order of the code.  The FHE library and the    *)
(* oracle are external: a ciphertext handle is modelled by its plaintext   *)
(* and an "initialized" flag, FHE.requestDecryption by a counter of        *)
(* request ids and a log of the payloads sent, FHE.checkSignatures by a    *)
(* boolean input that says whether the proof verifies.                     *)
(***************************************************************************)
EXTENDS Naturals, Sequences, FiniteSets, Bags, TLC

\* Bounds of the model: twins created, request ids issued, returning
\* decryptOrganTypeCount calls counted per request id, times the oracle returns an
\* id it has returned before (only in the specification that lets it).
MaxTwins == 2
MaxRequests == 2
MaxCallbacks == 2
MaxReplays == 1

VARIABLES
    twinCount,                \* uint256 public twinCount
    encryptedOrganTwins,      \* mapping(uint256 => EncryptedOrganModel)
    encryptedSimulations,     \* mapping(uint256 => EncryptedSimulationParams)
    decryptedResults,         \* mapping(uint256 => DecryptedSimulationResult)
    encryptedOrganTypeCount,  \* mapping(string => euint32)
    organTypeList,            \* string[]
    requestToTwinId,          \* mapping(uint256 => uint256)
    nextRequestId,            \* oracle: the id FHE.requestDecryption returns next
    oracleRequests,           \* oracle: request id -> payload and callback selector
    replays,                  \* oracle: how often it returned an id it had returned before
    events,                   \* bag of the events emitted so far
    now,                      \* block.timestamp of the latest block with a creation
    completions,              \* history: bag of the successful processSimulationResult calls
    countCallbacks            \* history: request id -> decryptOrganTypeCount calls that returned

\* The contract's storage together with what it has sent out (oracle requests, events).
state == <<twinCount, encryptedOrganTwins, encryptedSimulations, decryptedResults,
           encryptedOrganTypeCount, organTypeList, requestToTwinId,
           nextRequestId, oracleRequests, events>>

vars == <<twinCount, encryptedOrganTwins, encryptedSimulations, decryptedResults,
          encryptedOrganTypeCount, organTypeList, requestToTwinId,
          nextRequestId, oracleRequests, replays, events, now, completions,
          countCallbacks>>

----------------------------------------------------------------------------
(* Values *)

\* Organ-type labels the oracle may deliver as first clear value.
Categories == {"heart", "liver"}

\* bytes32ToUint(keccak256(abi.encodePacked(organType))): injective on the labels,
\* and (a 256-bit hash) far outside the range of the twin ids.
Keccak(organType) ==
    CASE organType = "heart" -> 1001
      [] organType = "liver" -> 1002
      [] OTHER -> 1000

\* Twin ids callers pass in: 0, the ids that can be allocated, and one beyond.
TwinIds == 0..(MaxTwins + 1)

\* Keys of decryptedResults: twin ids, and the hashes a count request registers.
ResultKeys == TwinIds \cup {Keccak(c) : c \in Categories}

\* Request ids: 0 is never issued, 1..MaxRequests are issued in order.
ReqIds == 0..MaxRequests

\* An euint32 handle: uninitialized (the zero handle), or an encryption of val.
Uninit == [init |-> FALSE, val |-> 0]

\* FHE.asEuint32(v): a (trivial) encryption of v.
AsEuint32(v) == [init |-> TRUE, val |-> v]

\* The ciphertexts callers pass in.  The contract never looks into a ciphertext, it
\* only stores and forwards it, so every argument of every call is a ciphertext of
\* its own: whichever slot a stored or forwarded ciphertext came from can be told.
\* Those of the creation of twin n:
TwinInputs(n) == <<AsEuint32(10 * n + 1), AsEuint32(10 * n + 2), AsEuint32(10 * n + 3)>>

\* Those of the simulation request that gets request id r: compound, dosage, procedure.
SimulationInputs(r) ==
    <<AsEuint32(100 + 10 * r + 1), AsEuint32(100 + 10 * r + 2), AsEuint32(100 + 10 * r + 3)>>

\* FHE.isInitialized(h)
IsInitialized(h) == h.init

\* FHE.add(a, b): homomorphic addition of two euint32.  The sum wraps at 2^32, which
\* a counter that grows by one per completed simulation does not reach here.
FHEAdd(a, b) == AsEuint32(a.val + b.val)

\* FHE.toBytes32(h): unwraps the handle.
ToBytes32(h) == h

\* The decrypted value of a counter, as the oracle would deliver it.
Plain(h) == IF h.init THEN h.val ELSE 0

\* cleartexts of a simulation callback: bytes that abi.decode reads as a string[]
\* (first element the organ type; possibly empty), or bytes it cannot read.
ClearTexts ==
    {[decodes |-> TRUE, strings |-> <<c>>] : c \in Categories}
        \cup {[decodes |-> TRUE, strings |-> <<>>], [decodes |-> FALSE, strings |-> <<>>]}

\* cleartexts of a count callback: bytes that abi.decode reads as a uint32, or not.
ClearCounts ==
    {[decodes |-> TRUE, count |-> n] : n \in 0..MaxRequests}
        \cup {[decodes |-> FALSE, count |-> 0]}

\* How a call ends: without error, or reverted with one of these reasons.
NoError == "ok"
InvalidTwin == "Invalid twin ID"
UnknownRequest == "Invalid request"
AlreadyRevealed == "Already processed"
UnknownCategory == "Organ type not found"
InvalidProof == "checkSignatures reverted"
DecodeError == "abi.decode reverted"
IndexPanic == "array index out of bounds"

\* Callback selectors.
SelProcess == "processSimulationResult.selector"
SelDecryptCount == "decryptOrganTypeCount.selector"

\* Default (zero) values of the mappings.
NoTwin == [twinId |-> 0, encryptedOrganType |-> Uninit, encryptedPhysioData |-> Uninit,
           encryptedGeneticMarkers |-> Uninit, creationTime |-> 0]
NoParams == [encryptedDrugCompound |-> Uninit, encryptedDosage |-> Uninit,
             encryptedProcedureType |-> Uninit]
EmptyResult == [predictedEffect |-> "", riskAssessment |-> "",
                recommendedAdjustment |-> "", isRevealed |-> FALSE]
NoRequest == [ciphertexts |-> <<>>, selector |-> "none"]

\* Events.
TwinCreated(id, timestamp) ==
    [name |-> "TwinCreated", id |-> id, timestamp |-> timestamp, riskLevel |-> ""]
SimulationRequested(twinId) ==
    [name |-> "SimulationRequested", id |-> twinId, timestamp |-> 0, riskLevel |-> ""]

\* A variant of SimulationCompleted that leaves out the risk text.
SimulationCompleted_NoRiskText(twinId, riskLevel) ==
    [name |-> "SimulationCompleted", id |-> twinId, timestamp |-> 0, riskLevel |-> ""]

SimulationCompleted(twinId, riskLevel) ==
    [name |-> "SimulationCompleted", id |-> twinId, timestamp |-> 0, riskLevel |-> riskLevel]

\* emit e
Emit(e) == events (+) SetToBag({e})

----------------------------------------------------------------------------
(* Helpers of the contract *)

\* encryptedOrganTwins(twinId), the getter the compiler generates for the public
\* mapping, the only way to read a twin: it returns the stored record, which for a
\* key never written is the all-zero record, and it has no revert path.
GetTwin(twinId) == encryptedOrganTwins[twinId]

\* getSimulationResult(twinId): the four fields of decryptedResults[twinId].
GetSimulationResult(twinId) ==
    <<decryptedResults[twinId].predictedEffect, decryptedResults[twinId].riskAssessment,
      decryptedResults[twinId].recommendedAdjustment, decryptedResults[twinId].isRevealed>>

\* A variant of TwinIdAccepted that also turns away a twin whose result is revealed.
TwinIdAccepted_UnrevealedOnly(twinId) ==
    twinId <= twinCount /\ ~decryptedResults[twinId].isRevealed

\* require(twinId <= twinCount, "Invalid twin ID")
TwinIdAccepted(twinId) == twinId <= twinCount

\* A variant of RequestKnown that lets every request id through.
RequestKnown_NoCheck(twinId) == TRUE

\* require(twinId != 0, "Invalid request")
RequestKnown(twinId) == twinId # 0

\* A variant of NotYetRevealed without the guard on isRevealed.
NotYetRevealed_NoCheck(result) == TRUE

\* require(!result.isRevealed, "Already processed")
NotYetRevealed(result) == ~result.isRevealed

\* A variant of CheckSignatures that accepts every proof.
CheckSignatures_AcceptAll(proofOk) == TRUE

\* A variant of CheckSignatures that rejects every proof.
CheckSignatures_RejectAll(proofOk) == FALSE

\* FHE.checkSignatures(requestId, cleartexts, proof): reverts unless the proof verifies.
CheckSignatures(proofOk) == proofOk

\* A variant of CountInitialized that takes every organ type as counted.
CountInitialized_NoCheck(organType) == TRUE

\* require(FHE.isInitialized(count), "Organ type not found")
CountInitialized(organType) == IsInitialized(encryptedOrganTypeCount[organType])

\* A variant of NewTwinId that reads twinCount before it is incremented.
NewTwinId_BeforeIncrement == twinCount

\* twinCount += 1; uint256 newId = twinCount;
NewTwinId == twinCount + 1

\* generatePrediction, assessRisks, suggestAdjustments: constant texts.
GeneratePrediction(data) == "Improved cardiac output by 15%"
AssessRisks(data) == "Low risk of arrhythmia"
SuggestAdjustments(data) == "Reduce dosage by 20% for renal patients"

\* A variant of PrepareSimulationData that sends only the three ciphertexts of the
\* twin for a surgery simulation.
PrepareSimulationData_SurgeryThree(twinId, params, isSurgery) ==
    IF isSurgery
    THEN <<ToBytes32(encryptedOrganTwins[twinId].encryptedOrganType),
           ToBytes32(encryptedOrganTwins[twinId].encryptedPhysioData),
           ToBytes32(encryptedOrganTwins[twinId].encryptedGeneticMarkers)>>
    ELSE <<ToBytes32(encryptedOrganTwins[twinId].encryptedOrganType),
           ToBytes32(encryptedOrganTwins[twinId].encryptedPhysioData),
           ToBytes32(encryptedOrganTwins[twinId].encryptedGeneticMarkers),
           ToBytes32(params.encryptedDrugCompound)>>

\* prepareSimulationData(twinId, isSurgery), reading the parameters just stored.
PrepareSimulationData(twinId, params, isSurgery) ==
    <<ToBytes32(encryptedOrganTwins[twinId].encryptedOrganType),
      ToBytes32(encryptedOrganTwins[twinId].encryptedPhysioData),
      ToBytes32(encryptedOrganTwins[twinId].encryptedGeneticMarkers),
      IF isSurgery THEN ToBytes32(params.encryptedProcedureType)
                   ELSE ToBytes32(params.encryptedDrugCompound)>>

\* A variant of UpdatedCount that stores an encrypted one instead of adding one.
UpdatedCount_StoreOne(organType) ==
    [encryptedOrganTypeCount EXCEPT ![organType] = AsEuint32(1)]

\* A variant of UpdatedCount that adds one to the counter of every organ type.
UpdatedCount_EveryOrganType(organType) ==
    [c \in DOMAIN encryptedOrganTypeCount |->
        FHEAdd(IF IsInitialized(encryptedOrganTypeCount[c])
               THEN encryptedOrganTypeCount[c] ELSE AsEuint32(0),
               AsEuint32(1))]

\* A variant of IncrementedCount that restarts from an encrypted zero every time.
IncrementedCount_Restart(counts, organType) ==
    [counts EXCEPT ![organType] = FHEAdd(AsEuint32(0), AsEuint32(1))]

\* updateOrganTypeStatistics(organType) on the counters counts: an uninitialized
\* counter is first set to an encrypted zero, then one is added.
IncrementedCount(counts, organType) ==
    LET started == IF IsInitialized(counts[organType])
                   THEN counts[organType]
                   ELSE AsEuint32(0)
    IN [counts EXCEPT ![organType] = FHEAdd(started, AsEuint32(1))]

\* updateOrganTypeStatistics(organType): the counters afterwards.
UpdatedCount(organType) == IncrementedCount(encryptedOrganTypeCount, organType)

\* A variant of RevealedResults that marks every result slot revealed.
RevealedResults_MarkAll(results, twinId, simulationData) ==
    [k \in DOMAIN results |->
        IF k = twinId
        THEN [predictedEffect |-> GeneratePrediction(simulationData),
              riskAssessment |-> AssessRisks(simulationData),
              recommendedAdjustment |-> SuggestAdjustments(simulationData),
              isRevealed |-> TRUE]
        ELSE [results[k] EXCEPT !.isRevealed = TRUE]]

\* processSimulationResult on the results results: the three texts and the flag
\* written to the slot of twinId.
RevealedResults(results, twinId, simulationData) ==
    [results EXCEPT ![twinId] =
        [predictedEffect |-> GeneratePrediction(simulationData),
         riskAssessment |-> AssessRisks(simulationData),
         recommendedAdjustment |-> SuggestAdjustments(simulationData),
         isRevealed |-> TRUE]]

\* A variant of UpdatedList that appends the organ type at every increment.
UpdatedList_AlwaysAppend(organType) == Append(organTypeList, organType)

\* updateOrganTypeStatistics(organType): the list of organ types afterwards.
UpdatedList(organType) ==
    IF IsInitialized(encryptedOrganTypeCount[organType])
    THEN organTypeList
    ELSE Append(organTypeList, organType)

\* getOrganTypeFromHash(hash): whether some listed organ type hashes to hash
\* (otherwise the function reverts with "Organ type not found").
OrganTypeListed(hash) ==
    \E i \in 1..Len(organTypeList) : Keccak(organTypeList[i]) = hash

\* getOrganTypeFromHash(hash): the first listed organ type that hashes to hash.
GetOrganTypeFromHash(hash) ==
    organTypeList[CHOOSE i \in 1..Len(organTypeList) :
                     /\ Keccak(organTypeList[i]) = hash
                     /\ \A j \in 1..(i - 1) : Keccak(organTypeList[j]) # hash]

----------------------------------------------------------------------------
(* Initial state: the contract as deployed, the oracle with no request yet *)

Init ==
    /\ twinCount = 0
    /\ encryptedOrganTwins = [k \in TwinIds |-> NoTwin]
    /\ encryptedSimulations = [k \in TwinIds |-> NoParams]
    /\ decryptedResults = [k \in ResultKeys |-> EmptyResult]
    /\ encryptedOrganTypeCount = [c \in Categories |-> Uninit]
    /\ organTypeList = <<>>
    /\ requestToTwinId = [r \in ReqIds |-> 0]
    /\ nextRequestId = 1
    /\ oracleRequests = [r \in ReqIds |-> NoRequest]
    /\ replays = 0
    /\ events = EmptyBag
    /\ now = 1
    /\ completions = EmptyBag
    /\ countCallbacks = [r \in ReqIds |-> 0]

----------------------------------------------------------------------------
(* How each call ends in the current state: the checks in the order of the code *)

\* requestDrugSimulation(twinId, ..) and requestSurgerySimulation(twinId, ..)
RequestSimulationOutcome(twinId) ==
    IF ~TwinIdAccepted(twinId) THEN InvalidTwin ELSE NoError

\* A variant of ProcessOutcome that verifies the proof before the other two checks.
ProcessOutcome_ProofFirst(requestId, cleartexts, proofOk) ==
    IF ~CheckSignatures(proofOk) THEN InvalidProof
    ELSE IF ~RequestKnown(requestToTwinId[requestId]) THEN UnknownRequest
    ELSE IF ~NotYetRevealed(decryptedResults[requestToTwinId[requestId]]) THEN AlreadyRevealed
    ELSE IF ~cleartexts.decodes THEN DecodeError
    ELSE IF Len(cleartexts.strings) = 0 THEN IndexPanic
    ELSE NoError

\* processSimulationResult(requestId, cleartexts, proof)
ProcessOutcome(requestId, cleartexts, proofOk) ==
    IF ~RequestKnown(requestToTwinId[requestId]) THEN UnknownRequest
    ELSE IF ~NotYetRevealed(decryptedResults[requestToTwinId[requestId]]) THEN AlreadyRevealed
    ELSE IF ~CheckSignatures(proofOk) THEN InvalidProof
    ELSE IF ~cleartexts.decodes THEN DecodeError
    ELSE IF Len(cleartexts.strings) = 0 THEN IndexPanic
    ELSE NoError

\* encryptedOrganTwins(twinId), the public getter
GetTwinOutcome(twinId) == NoError

\* requestOrganTypeCountDecryption(organType)
RequestCountOutcome(organType) ==
    IF ~CountInitialized(organType) THEN UnknownCategory ELSE NoError

\* decryptOrganTypeCount(requestId, cleartexts, proof)
DecryptCountOutcome(requestId, cleartexts, proofOk) ==
    IF ~OrganTypeListed(requestToTwinId[requestId]) THEN UnknownCategory
    ELSE IF ~CheckSignatures(proofOk) THEN InvalidProof
    ELSE IF ~cleartexts.decodes THEN DecodeError
    ELSE NoError

----------------------------------------------------------------------------
(* Actions: one per public function *)

\* createEncryptedTwin(encryptedOrganType, encryptedPhysioData, encryptedGeneticMarkers),
\* in a block with the given block.timestamp (the contract only stores and emits
\* it; each creation is taken to be mined in a block of its own).
createEncryptedTwin(encryptedOrganType, encryptedPhysioData, encryptedGeneticMarkers, timestamp) ==
    /\ twinCount < MaxTwins
    /\ twinCount' = twinCount + 1
    /\ encryptedOrganTwins' =
           [encryptedOrganTwins EXCEPT ![NewTwinId] =
               [twinId |-> NewTwinId,
                encryptedOrganType |-> encryptedOrganType,
                encryptedPhysioData |-> encryptedPhysioData,
                encryptedGeneticMarkers |-> encryptedGeneticMarkers,
                creationTime |-> timestamp]]
    /\ decryptedResults' = [decryptedResults EXCEPT ![NewTwinId] = EmptyResult]
    /\ events' = Emit(TwinCreated(NewTwinId, timestamp))
    /\ now' = timestamp
    /\ UNCHANGED <<encryptedSimulations, encryptedOrganTypeCount, organTypeList,
                   requestToTwinId, nextRequestId, oracleRequests, completions,
                   countCallbacks, replays>>

\* A variant of TrackRequest that also drops the earlier entries with the same target.
TrackRequest_CancelEarlier(reqId, target) ==
    [r \in DOMAIN requestToTwinId |->
        IF r = reqId THEN target
        ELSE IF requestToTwinId[r] = target THEN 0
        ELSE requestToTwinId[r]]

\* requestToTwinId[reqId] = twinId (or the hash of the organ type): the tracker
\* afterwards.
TrackRequest(reqId, target) == [requestToTwinId EXCEPT ![reqId] = target]

\* FHE.requestDecryption(ciphertexts, selector) returning reqId: what the oracle
\* holds afterwards.  The id it returns is its counter, which it then advances, or
\* (an oracle that repeats itself) an id it has returned before.
OracleAfterRequest(reqId, ciphertexts, selector) ==
    /\ reqId \in 1..MaxRequests
    /\ reqId <= nextRequestId
    /\ oracleRequests' =
           [oracleRequests EXCEPT ![reqId] =
               [ciphertexts |-> ciphertexts, selector |-> selector]]
    /\ nextRequestId' = IF reqId = nextRequestId THEN nextRequestId + 1 ELSE nextRequestId
    /\ reqId < nextRequestId => replays < MaxReplays
    /\ replays' = IF reqId < nextRequestId THEN replays + 1 ELSE replays

\* The common body of the two simulation requests: store the parameters, send the
\* four ciphertexts to the oracle, register the request id reqId it returns, emit
\* the event.
RequestSimulation(twinId, params, isSurgery, reqId) ==
    IF RequestSimulationOutcome(twinId) # NoError
    THEN UNCHANGED vars
    ELSE /\ encryptedSimulations' = [encryptedSimulations EXCEPT ![twinId] = params]
         /\ OracleAfterRequest(reqId, PrepareSimulationData(twinId, params, isSurgery),
                               SelProcess)
         /\ requestToTwinId' = TrackRequest(reqId, twinId)
         /\ events' = Emit(SimulationRequested(twinId))
         /\ UNCHANGED <<twinCount, encryptedOrganTwins, decryptedResults,
                        encryptedOrganTypeCount, organTypeList, now, completions,
                        countCallbacks>>

\* requestDrugSimulation(twinId, encryptedDrugCompound, encryptedDosage), the oracle
\* returning reqId
requestDrugSimulation(twinId, encryptedDrugCompound, encryptedDosage, reqId) ==
    RequestSimulation(twinId,
                      [encryptedDrugCompound |-> encryptedDrugCompound,
                       encryptedDosage |-> encryptedDosage,
                       encryptedProcedureType |-> AsEuint32(0)],
                      FALSE, reqId)

\* requestSurgerySimulation(twinId, encryptedProcedureType), the oracle returning reqId
requestSurgerySimulation(twinId, encryptedProcedureType, reqId) ==
    RequestSimulation(twinId,
                      [encryptedDrugCompound |-> AsEuint32(0),
                       encryptedDosage |-> AsEuint32(0),
                       encryptedProcedureType |-> encryptedProcedureType],
                      TRUE, reqId)

\* processSimulationResult(requestId, cleartexts, proof)
processSimulationResult(requestId, cleartexts, proofOk) ==
    LET twinId == requestToTwinId[requestId]
        simulationData == cleartexts.strings
    IN  IF ProcessOutcome(requestId, cleartexts, proofOk) # NoError
        THEN UNCHANGED vars
        ELSE /\ decryptedResults' = RevealedResults(decryptedResults, twinId, simulationData)
             /\ encryptedOrganTypeCount' = UpdatedCount(simulationData[1])
             /\ organTypeList' = UpdatedList(simulationData[1])
             /\ events' = Emit(SimulationCompleted(twinId, AssessRisks(simulationData)))
             /\ completions' = completions (+)
                                   SetToBag({[requestId |-> requestId, twinId |-> twinId,
                                              organType |-> simulationData[1]]})
             /\ UNCHANGED <<twinCount, encryptedOrganTwins, encryptedSimulations,
                            requestToTwinId, nextRequestId, oracleRequests, now,
                            countCallbacks, replays>>

\* requestOrganTypeCountDecryption(organType), the oracle returning reqId
requestOrganTypeCountDecryption(organType, reqId) ==
    IF RequestCountOutcome(organType) # NoError
    THEN UNCHANGED vars
    ELSE /\ OracleAfterRequest(reqId, <<ToBytes32(encryptedOrganTypeCount[organType])>>,
                               SelDecryptCount)
         /\ requestToTwinId' = TrackRequest(reqId, Keccak(organType))
         /\ UNCHANGED <<twinCount, encryptedOrganTwins, encryptedSimulations,
                        decryptedResults, encryptedOrganTypeCount, organTypeList,
                        events, now, completions, countCallbacks>>

\* decryptOrganTypeCount(requestId, cleartexts, proof): the organ type found and the
\* decoded count are local variables that are dropped, so a call that does not
\* revert writes nothing either: it leaves the storage, the oracle and the events
\* as they are, and only the history counts it (up to MaxCallbacks per request id).
decryptOrganTypeCount(requestId, cleartexts, proofOk) ==
    IF DecryptCountOutcome(requestId, cleartexts, proofOk) # NoError
    THEN UNCHANGED vars
    ELSE /\ countCallbacks[requestId] < MaxCallbacks
         /\ countCallbacks' = [countCallbacks EXCEPT ![requestId] = @ + 1]
         /\ UNCHANGED <<state, replays, now, completions>>

\* The calls a client makes, with the ciphertexts it has encrypted for the call.
CreateCall(timestamp) ==
    createEncryptedTwin(TwinInputs(twinCount + 1)[1], TwinInputs(twinCount + 1)[2],
                        TwinInputs(twinCount + 1)[3], timestamp)
DrugCall(twinId) ==
    requestDrugSimulation(twinId, SimulationInputs(nextRequestId)[1],
                          SimulationInputs(nextRequestId)[2], nextRequestId)
SurgeryCall(twinId) ==
    requestSurgerySimulation(twinId, SimulationInputs(nextRequestId)[3], nextRequestId)
CountCall(organType) ==
    requestOrganTypeCountDecryption(organType, nextRequestId)

Next ==
    \/ \E timestamp \in {now + 1} : CreateCall(timestamp)
    \/ \E twinId \in TwinIds : DrugCall(twinId)
    \/ \E twinId \in TwinIds : SurgeryCall(twinId)
    \/ \E requestId \in ReqIds, cleartexts \in ClearTexts, proofOk \in BOOLEAN :
           processSimulationResult(requestId, cleartexts, proofOk)
    \/ \E organType \in Categories : CountCall(organType)
    \/ \E requestId \in ReqIds, cleartexts \in ClearCounts, proofOk \in BOOLEAN :
           decryptOrganTypeCount(requestId, cleartexts, proofOk)

Spec == Init /\ [][Next]_vars

\* The oracle answers request id requestId: a callback whose proof verifies and
\* whose clear values are what processSimulationResult decodes, a list of strings
\* with the organ type first.
ValidCallback(requestId) ==
    \E cleartexts \in ClearTexts :
        /\ cleartexts.decodes
        /\ Len(cleartexts.strings) > 0
        /\ processSimulationResult(requestId, cleartexts, TRUE)

\* The oracle does not leave a request unanswered for ever: for every request id,
\* if its answer would keep being applied, it is eventually delivered.  Nothing
\* is assumed about the order of the answers, nor about what other calls, failing
\* or repeated callbacks among them, are made in between.
OracleAnswers == \A requestId \in 1..MaxRequests : WF_vars(ValidCallback(requestId))

SpecLive == Init /\ [][Next]_vars /\ OracleAnswers

\* The same calls with an oracle that may return a request id it has returned
\* before, to whichever request function calls it.
DrugCallReplay(twinId, reqId) ==
    requestDrugSimulation(twinId, SimulationInputs(nextRequestId)[1],
                          SimulationInputs(nextRequestId)[2], reqId)
SurgeryCallReplay(twinId, reqId) ==
    requestSurgerySimulation(twinId, SimulationInputs(nextRequestId)[3], reqId)
CountCallReplay(organType, reqId) ==
    requestOrganTypeCountDecryption(organType, reqId)

NextReplay ==
    \/ \E timestamp \in {now + 1} : CreateCall(timestamp)
    \/ \E twinId \in TwinIds, reqId \in 1..MaxRequests : DrugCallReplay(twinId, reqId)
    \/ \E twinId \in TwinIds, reqId \in 1..MaxRequests : SurgeryCallReplay(twinId, reqId)
    \/ \E requestId \in ReqIds, cleartexts \in ClearTexts, proofOk \in BOOLEAN :
           processSimulationResult(requestId, cleartexts, proofOk)
    \/ \E organType \in Categories, reqId \in 1..MaxRequests :
           CountCallReplay(organType, reqId)
    \/ \E requestId \in ReqIds, cleartexts \in ClearCounts, proofOk \in BOOLEAN :
           decryptOrganTypeCount(requestId, cleartexts, proofOk)

SpecReplay == Init /\ [][NextReplay]_vars

----------------------------------------------------------------------------
(* What the properties below count *)

\* The successful processSimulationResult calls that wrote the result of twinId.
SuccessesForTwin(twinId) ==
    BagCardinality([e \in {x \in BagToSet(completions) : x.twinId = twinId} |-> completions[e]])

\* The successful processSimulationResult calls whose first clear value was organType.
SuccessesForOrganType(organType) ==
    BagCardinality([e \in {x \in BagToSet(completions) : x.organType = organType}
                       |-> completions[e]])

\* The successful processSimulationResult calls made with request id requestId.
SuccessesForRequest(requestId) ==
    BagCardinality([e \in {x \in BagToSet(completions) : x.requestId = requestId}
                       |-> completions[e]])

\* The events with the given name and id emitted so far.
EventCount(name, id) ==
    BagCardinality([e \in {x \in BagToSet(events) : x.name = name /\ x.id = id} |-> events[e]])

\* The request id was returned by the oracle to some request function.
Registered(requestId) == oracleRequests[requestId] # NoRequest

\* The request id has a tracker entry that no callback has been applied for yet.
Pending(requestId) ==
    /\ requestToTwinId[requestId] # 0
    /\ SuccessesForRequest(requestId) = 0
    /\ countCallbacks[requestId] = 0

\* The request ids registered by a simulation request for twinId.
SimulationRequestsFor(twinId) ==
    {r \in ReqIds : oracleRequests[r].selector = SelProcess /\ requestToTwinId[r] = twinId}

\* Where a twin id stands on its simulation track: its result is revealed; or it
\* is not and some simulation request has been registered for it; or neither.
TwinPhase(twinId) ==
    IF decryptedResults[twinId].isRevealed THEN "Revealed"
    ELSE IF SimulationRequestsFor(twinId) # {} THEN "Pending"
    ELSE "NoSimulation"

\* The sum of the decrypted counters of the organ types in list.
RECURSIVE SumOfCounts(_)
SumOfCounts(list) ==
    IF list = <<>> THEN 0
    ELSE Plain(encryptedOrganTypeCount[Head(list)]) + SumOfCounts(Tail(list))

\* The ids whose result is revealed.
RevealedIds == {id \in ResultKeys : decryptedResults[id].isRevealed}

\* The result of the twin that request id requestId resolves to is revealed.
TargetRevealed(requestId) ==
    requestToTwinId[requestId] # 0 /\ decryptedResults[requestToTwinId[requestId]].isRevealed

----------------------------------------------------------------------------
(* C1 *)

\* C1: for every twin id, getSimulationResult returns isRevealed = false with three
\* empty texts until a processSimulationResult call for that twin has succeeded; at
\* most one call ever succeeds for a twin id; isRevealed, once true, stays true.
C1_RevealedOnceAndForever ==
    /\ [](\A id \in ResultKeys :
            /\ SuccessesForTwin(id) <= 1
            /\ GetSimulationResult(id)[4] = (SuccessesForTwin(id) = 1)
            /\ (SuccessesForTwin(id) = 0 =>
                   GetSimulationResult(id) = <<"", "", "", FALSE>>))
    /\ [][\A id \in ResultKeys :
             decryptedResults[id].isRevealed => decryptedResults'[id].isRevealed]_vars

\* One twin is revealed by its one successful callback while another twin with a
\* registered request still reads as unrevealed and empty.
C1_Witness ==
    \E a \in 1..twinCount, b \in 1..twinCount, r \in ReqIds :
        /\ a # b
        /\ GetSimulationResult(a)[4] /\ SuccessesForTwin(a) = 1
        /\ requestToTwinId[r] = b
        /\ GetSimulationResult(b) = <<"", "", "", FALSE>>

----------------------------------------------------------------------------
(* C2 *)

\* C2: after processSimulationResult has succeeded for request id R, the tracker
\* entry of R is retired, and every later processSimulationResult call with the same
\* R fails with UnknownRequest and changes no state.
C2_ResolvedRequestIsRetired ==
    /\ [](\A r \in ReqIds :
            SuccessesForRequest(r) > 0 =>
                /\ requestToTwinId[r] = 0
                /\ \A c \in ClearTexts, p \in BOOLEAN :
                       ProcessOutcome(r, c, p) = UnknownRequest)
    /\ [][\A r \in ReqIds, c \in ClearTexts, p \in BOOLEAN :
             (SuccessesForRequest(r) > 0 /\ processSimulationResult(r, c, p)) =>
                 UNCHANGED state]_vars

----------------------------------------------------------------------------
(* C3 *)

\* C3: processSimulationResult with a request id that no request function ever
\* registered fails with UnknownRequest, whatever the clear values and the proof,
\* and changes nothing of the storage, the oracle requests or the events.
C3_UnregisteredRequestRejected ==
    /\ [](\A r \in ReqIds, c \in ClearTexts, p \in BOOLEAN :
            ~Registered(r) => ProcessOutcome(r, c, p) = UnknownRequest)
    /\ [][\/ UNCHANGED state
          \/ \A r \in ReqIds, c \in ClearTexts, p \in BOOLEAN :
                 ~(~Registered(r) /\ processSimulationResult(r, c, p))]_vars

\* While one registered request is pending and would be applied, a callback with an
\* id that was never registered, decodable clear values and a valid proof is
\* rejected as unknown.
C3_Witness ==
    \E r1 \in ReqIds, r2 \in ReqIds, c \in ClearTexts :
        /\ Registered(r1) /\ ProcessOutcome(r1, c, TRUE) = NoError
        /\ ~Registered(r2) /\ r2 # 0
        /\ ProcessOutcome(r2, c, TRUE) = UnknownRequest

----------------------------------------------------------------------------
(* C4 *)

\* C4: processSimulationResult for a request id that resolves to a twin whose result
\* is already revealed fails with AlreadyRevealed and changes no state: the texts
\* stay and no counter is incremented.
C4_RevealedTwinRejectsCallback ==
    /\ [](\A r \in ReqIds, c \in ClearTexts, p \in BOOLEAN :
            TargetRevealed(r) => ProcessOutcome(r, c, p) = AlreadyRevealed)
    /\ [][\/ UNCHANGED state
          \/ \A r \in ReqIds, c \in ClearTexts, p \in BOOLEAN :
                 ~(TargetRevealed(r) /\ processSimulationResult(r, c, p))]_vars

\* Two request ids target one twin, one of them has been applied, and a callback for
\* the other, with decodable clear values and a valid proof, is rejected as already
\* processed.
C4_Witness ==
    \E r1 \in ReqIds, r2 \in ReqIds, c \in ClearTexts :
        /\ r1 # r2
        /\ requestToTwinId[r1] \in 1..twinCount
        /\ requestToTwinId[r1] = requestToTwinId[r2]
        /\ SuccessesForRequest(r1) = 1
        /\ SuccessesForRequest(r2) = 0
        /\ c.decodes /\ Len(c.strings) > 0
        /\ ProcessOutcome(r2, c, TRUE) = AlreadyRevealed

----------------------------------------------------------------------------
(* C5 *)

\* C5: a processSimulationResult call whose proof fails verification fails and
\* changes no state: no result is revealed, no counter is initialized or
\* incremented, no organ type is listed.
C5_FailingProofChangesNothing ==
    /\ [](\A r \in ReqIds, c \in ClearTexts : ProcessOutcome(r, c, FALSE) # NoError)
    /\ [][\/ UNCHANGED <<state, completions>>
          \/ \A r \in ReqIds, c \in ClearTexts : ~processSimulationResult(r, c, FALSE)]_vars

\* A callback for a pending request of an unrevealed twin is rejected for its proof
\* alone: with a valid proof it would be applied.
C5_Witness ==
    \E r \in ReqIds, c \in ClearTexts :
        /\ requestToTwinId[r] \in 1..twinCount
        /\ ProcessOutcome(r, c, FALSE) = InvalidProof
        /\ ProcessOutcome(r, c, TRUE) = NoError

----------------------------------------------------------------------------
(* C6 *)

\* C6: requestDrugSimulation and requestSurgerySimulation with a twinId that is not
\* one of the allocated ids 1..twinCount fail with InvalidTwin and change no state.
C6_UnallocatedTwinRejected ==
    [][\A twinId \in TwinIds :
          (twinId \notin 1..twinCount /\ (DrugCall(twinId) \/ SurgeryCall(twinId))) =>
              (RequestSimulationOutcome(twinId) = InvalidTwin /\ UNCHANGED state)]_vars

----------------------------------------------------------------------------
(* C7 *)

\* C7: the counter of every organ type equals the number of successful
\* processSimulationResult calls whose first clear value was that organ type.
C7_CounterCountsCompletions ==
    \A c \in Categories :
        Plain(encryptedOrganTypeCount[c]) = SuccessesForOrganType(c)

\* Two different twins have completed with the same organ type, which counts 2.
C7_Witness ==
    \E c \in Categories, a \in 1..twinCount, b \in 1..twinCount :
        /\ a # b
        /\ decryptedResults[a].isRevealed /\ decryptedResults[b].isRevealed
        /\ Plain(encryptedOrganTypeCount[c]) = 2

----------------------------------------------------------------------------
(* C8 *)

\* C8: createEncryptedTwin assigns the ids 1, 2, 3, ... in order, never one twice;
\* twinCount is the number of creations; each creation leaves the result of the new
\* id unrevealed and empty and emits one TwinCreated event carrying the new id; no
\* other function changes twinCount.
C8_TwinIdsCountCreations ==
    /\ [](\A id \in TwinIds :
            /\ EventCount("TwinCreated", id) = (IF id \in 1..twinCount THEN 1 ELSE 0)
            /\ encryptedOrganTwins[id].twinId = (IF id \in 1..twinCount THEN id ELSE 0))
    /\ [][/\ (\E timestamp \in {now + 1} : CreateCall(timestamp)) =>
                  (/\ twinCount' = twinCount + 1
                   /\ encryptedOrganTwins'[twinCount'].twinId = twinCount'
                   /\ decryptedResults'[twinCount'] = EmptyResult
                   /\ events' = Emit(TwinCreated(twinCount',
                                                 encryptedOrganTwins'[twinCount'].creationTime)))
           /\ (twinCount' # twinCount => \E timestamp \in {now + 1} : CreateCall(timestamp))]_vars

\* A second twin was created after a simulation for the first had been requested
\* and completed.
C8_Witness ==
    /\ twinCount = 2
    /\ EventCount("TwinCreated", 2) = 1
    /\ decryptedResults[1].isRevealed
    /\ decryptedResults[2] = EmptyResult
    /\ \A r \in ReqIds : requestToTwinId[r] # 2

----------------------------------------------------------------------------
(* C9 *)

\* C9: once the result of a twin is revealed, its three texts and its flag never
\* change, whatever is called afterwards.
C9_RevealedResultIsWriteOnce ==
    [][\A id \in ResultKeys :
          decryptedResults[id].isRevealed => decryptedResults'[id] = decryptedResults[id]]_vars

\* After a result was revealed, a further request for the same twin was registered
\* and a second twin was created; the revealed texts are the ones written.
C9_Witness ==
    /\ twinCount = 2
    /\ \E r1 \in ReqIds, r2 \in ReqIds :
          /\ r1 < r2
          /\ requestToTwinId[r1] = 1
          /\ requestToTwinId[r2] = 1
          /\ SuccessesForRequest(r1) = 1
          /\ GetSimulationResult(1) =
                 <<"Improved cardiac output by 15%", "Low risk of arrhythmia",
                   "Reduce dosage by 20% for renal patients", TRUE>>

----------------------------------------------------------------------------
(* C10 *)

\* C10: requestOrganTypeCountDecryption for an organ type that was never the first
\* clear value of a successful callback fails with UnknownCategory; no oracle
\* request is issued and no tracker entry is registered.
C10_UncountedOrganTypeRejected ==
    /\ [](\A c \in Categories :
            SuccessesForOrganType(c) = 0 => RequestCountOutcome(c) = UnknownCategory)
    /\ [][\A c \in Categories :
             (SuccessesForOrganType(c) = 0 /\ CountCall(c)) =>
                 UNCHANGED <<nextRequestId, oracleRequests, requestToTwinId>>]_vars

\* One organ type is counted and its count can be requested, while the request for
\* another, never counted, is rejected.
C10_Witness ==
    \E c1 \in Categories, c2 \in Categories :
        /\ SuccessesForOrganType(c1) > 0 /\ RequestCountOutcome(c1) = NoError
        /\ SuccessesForOrganType(c2) = 0 /\ RequestCountOutcome(c2) = UnknownCategory

----------------------------------------------------------------------------
(* C11 *)

\* C11: a count-decryption request id resolves at most once: once
\* decryptOrganTypeCount has returned for request id R, every further
\* decryptOrganTypeCount call with R fails with UnknownRequest and changes no state;
\* and a decryptOrganTypeCount call with a request id that was never registered
\* fails and changes no state.
C11_CountRequestResolvesOnce ==
    [][\A r \in ReqIds, c \in ClearCounts, p \in BOOLEAN :
          /\ (countCallbacks[r] > 0 /\ decryptOrganTypeCount(r, c, p)) =>
                 (/\ DecryptCountOutcome(r, c, p) = UnknownRequest
                  /\ UNCHANGED <<state, countCallbacks>>)
          /\ (~Registered(r) /\ decryptOrganTypeCount(r, c, p)) =>
                 (/\ DecryptCountOutcome(r, c, p) # NoError
                  /\ UNCHANGED <<state, countCallbacks>>)]_vars

----------------------------------------------------------------------------
(* C12 *)

\* C12: a decryptOrganTypeCount call that returns makes the clear count it was
\* given observable: it records it in the storage or emits an event, so the storage
\* or the event log is not what it was before the call.
C12_ClearCountIsPublished ==
    [][\A r \in ReqIds, c \in ClearCounts, p \in BOOLEAN :
          (DecryptCountOutcome(r, c, p) = NoError /\ decryptOrganTypeCount(r, c, p)) =>
              (\/ events' # events
               \/ <<twinCount, encryptedOrganTwins, encryptedSimulations, decryptedResults,
                    encryptedOrganTypeCount, organTypeList, requestToTwinId>>'
                      # <<twinCount, encryptedOrganTwins, encryptedSimulations,
                           decryptedResults, encryptedOrganTypeCount, organTypeList,
                           requestToTwinId>>)]_vars

----------------------------------------------------------------------------
(* C13 *)

\* C13: the encrypted counters change only in a processSimulationResult call that
\* succeeds, and there the counter of the organ type named by the first clear value
\* grows by exactly one while every other counter stays as it is; twin creation,
\* the simulation requests, requestOrganTypeCountDecryption and
\* decryptOrganTypeCount, returning or reverting, leave every counter unchanged.
C13_CountersChangeOnlyByOneInCallback ==
    [][/\ \A r \in ReqIds, c \in ClearTexts, p \in BOOLEAN :
              (ProcessOutcome(r, c, p) = NoError /\ processSimulationResult(r, c, p)) =>
                  (/\ IsInitialized(encryptedOrganTypeCount'[c.strings[1]])
                   /\ Plain(encryptedOrganTypeCount'[c.strings[1]]) =
                          Plain(encryptedOrganTypeCount[c.strings[1]]) + 1
                   /\ \A d \in Categories \ {c.strings[1]} :
                          encryptedOrganTypeCount'[d] = encryptedOrganTypeCount[d])
       /\ (encryptedOrganTypeCount' # encryptedOrganTypeCount) =>
              (\E r \in ReqIds, c \in ClearTexts, p \in BOOLEAN :
                   ProcessOutcome(r, c, p) = NoError /\ processSimulationResult(r, c, p))
       /\ \/ UNCHANGED encryptedOrganTypeCount
          \/ ~(\/ \E timestamp \in {now + 1} : CreateCall(timestamp)
               \/ \E twinId \in TwinIds : DrugCall(twinId) \/ SurgeryCall(twinId)
               \/ \E organType \in Categories : CountCall(organType)
               \/ \E r \in ReqIds, c \in ClearCounts, p \in BOOLEAN :
                      decryptOrganTypeCount(r, c, p))]_vars

\* One organ type has been counted once, its count has been requested and the
\* count callback has returned, and the counter still holds one; the other organ
\* type's counter is still uninitialized.
C13_Witness ==
    \E c1 \in Categories, c2 \in Categories, r \in ReqIds :
        /\ c1 # c2
        /\ requestToTwinId[r] = Keccak(c1)
        /\ countCallbacks[r] > 0
        /\ Plain(encryptedOrganTypeCount[c1]) = 1
        /\ SuccessesForOrganType(c1) = 1
        /\ ~IsInitialized(encryptedOrganTypeCount[c2])

----------------------------------------------------------------------------
(* C14 *)

\* C14: organTypeList never holds an organ type twice; an organ type is in the list
\* exactly when its counter is initialized, which is exactly when it has been
\* incremented at least once; an organ type is appended to the list in the step of
\* its first increment and in no other step, and the list never loses an entry.
C14_ListedOnceIffCounted ==
    /\ [](/\ \A i \in 1..Len(organTypeList), j \in 1..Len(organTypeList) :
                organTypeList[i] = organTypeList[j] => i = j
          /\ \A c \in Categories :
                /\ (\E i \in 1..Len(organTypeList) : organTypeList[i] = c)
                       <=> IsInitialized(encryptedOrganTypeCount[c])
                /\ IsInitialized(encryptedOrganTypeCount[c])
                       <=> (SuccessesForOrganType(c) >= 1))
    /\ [][/\ Len(organTypeList') >= Len(organTypeList)
          /\ SubSeq(organTypeList', 1, Len(organTypeList)) = organTypeList
          /\ \A c \in Categories :
                (SuccessesForOrganType(c) = 0 /\ SuccessesForOrganType(c)' = 1)
                    <=> organTypeList' = Append(organTypeList, c)]_vars

\* An organ type has been incremented twice, by the callbacks of two twins, and is
\* listed once; the other organ type, never incremented, is not listed.
C14_Witness ==
    /\ Len(organTypeList) = 1
    /\ Plain(encryptedOrganTypeCount[organTypeList[1]]) = 2
    /\ SuccessesForOrganType(organTypeList[1]) = 2
    /\ \E c \in Categories : ~IsInitialized(encryptedOrganTypeCount[c])

----------------------------------------------------------------------------
(* C15 *)

\* C15: the target of a tracker entry never changes while the entry is pending,
\* even with an oracle that returns an id it has returned before: a request for an
\* allocated twin, or for the count of an organ type, that gets from the oracle a
\* request id whose entry is still unresolved does not put its own target in the
\* place of the entry's target.
C15_PendingEntryNotOverwritten ==
    [][\A r \in 1..MaxRequests :
          Pending(r) =>
              /\ \A twinId \in 1..twinCount :
                     (DrugCallReplay(twinId, r) \/ SurgeryCallReplay(twinId, r)) =>
                         requestToTwinId'[r] = requestToTwinId[r]
              /\ \A organType \in Categories :
                     CountCallReplay(organType, r) =>
                         requestToTwinId'[r] = requestToTwinId[r]]_vars

----------------------------------------------------------------------------
(* C16 *)

\* C16: reading the twin record of an id that was never allocated, 0 or an id above
\* twinCount, fails instead of returning a record.
C16_UnallocatedTwinNotReadable ==
    \A id \in TwinIds :
        id \notin 1..twinCount => GetTwinOutcome(id) # NoError

----------------------------------------------------------------------------
(* C17 *)

\* C17: a request id is applied only by the callback of its own kind: a
\* processSimulationResult call with a request id that requestOrganTypeCountDecryption
\* registered writes no result and increments no counter, and a
\* decryptOrganTypeCount call with a request id that a simulation request registered
\* does not return.
C17_CallbackOfOwnKindOnly ==
    [][\A r \in ReqIds, p \in BOOLEAN :
          /\ \A c \in ClearTexts :
                 (oracleRequests[r].selector = SelDecryptCount
                      /\ processSimulationResult(r, c, p)) =>
                     (/\ ProcessOutcome(r, c, p) # NoError
                      /\ UNCHANGED <<decryptedResults, encryptedOrganTypeCount>>)
          /\ \A c \in ClearCounts :
                 (oracleRequests[r].selector = SelProcess
                      /\ decryptOrganTypeCount(r, c, p)) =>
                     (/\ DecryptCountOutcome(r, c, p) # NoError
                      /\ UNCHANGED countCallbacks)]_vars

----------------------------------------------------------------------------
(* C18 *)

\* C18: when a simulation is requested for a twin while an earlier request R1 for
\* the same twin is still pending, the tracker entry of R1 still targets the twin
\* and the four ciphertexts sent to the oracle for R1 are the ones captured when R1
\* was issued; of the contract's stored data only the twin's simulation-parameter
\* slot changes, to the parameters of the new request.
C18_SecondRequestKeepsFirst ==
    /\ [](\A r \in ReqIds :
            (oracleRequests[r].selector = SelProcess /\ requestToTwinId[r] \in 1..twinCount) =>
                /\ SubSeq(oracleRequests[r].ciphertexts, 1, 3) = TwinInputs(requestToTwinId[r])
                /\ oracleRequests[r].ciphertexts[4] \in
                       {SimulationInputs(r)[1], SimulationInputs(r)[3]})
    /\ [][\A t \in 1..twinCount, r1 \in ReqIds :
             (/\ Pending(r1)
              /\ requestToTwinId[r1] = t
              /\ oracleRequests[r1].selector = SelProcess
              /\ RequestSimulationOutcome(t) = NoError
              /\ (DrugCall(t) \/ SurgeryCall(t))) =>
                 (/\ requestToTwinId'[r1] = t
                  /\ oracleRequests'[r1] = oracleRequests[r1]
                  /\ DrugCall(t) =>
                         encryptedSimulations'[t] =
                             [encryptedDrugCompound |-> SimulationInputs(nextRequestId)[1],
                              encryptedDosage |-> SimulationInputs(nextRequestId)[2],
                              encryptedProcedureType |-> AsEuint32(0)]
                  /\ SurgeryCall(t) =>
                         encryptedSimulations'[t] =
                             [encryptedDrugCompound |-> AsEuint32(0),
                              encryptedDosage |-> AsEuint32(0),
                              encryptedProcedureType |-> SimulationInputs(nextRequestId)[3]]
                  /\ \A k \in TwinIds \ {t} : encryptedSimulations'[k] = encryptedSimulations[k]
                  /\ UNCHANGED <<twinCount, encryptedOrganTwins, decryptedResults,
                                 encryptedOrganTypeCount, organTypeList>>)]_vars

\* Two requests for one twin are pending, a drug request and then a surgery
\* request: the slot holds the parameters of the second, the oracle still holds the
\* compound sent with the first, and the first entry still targets the twin.
C18_Witness ==
    \E t \in 1..twinCount, r1 \in ReqIds, r2 \in ReqIds :
        /\ r1 < r2
        /\ Pending(r1) /\ Pending(r2)
        /\ requestToTwinId[r1] = t /\ requestToTwinId[r2] = t
        /\ oracleRequests[r1].ciphertexts[4] = SimulationInputs(r1)[1]
        /\ oracleRequests[r2].ciphertexts[4] = SimulationInputs(r2)[3]
        /\ encryptedSimulations[t].encryptedProcedureType = SimulationInputs(r2)[3]
        /\ encryptedSimulations[t].encryptedDrugCompound = AsEuint32(0)

----------------------------------------------------------------------------
(* C19 *)

\* C19: every twin id has at most one simulation in flight: at most one unresolved
\* tracker entry registered by a simulation request targets it.
C19_OneSimulationInFlight ==
    \A r1 \in ReqIds, r2 \in ReqIds :
        (/\ Pending(r1) /\ Pending(r2)
         /\ oracleRequests[r1].selector = SelProcess
         /\ oracleRequests[r2].selector = SelProcess
         /\ requestToTwinId[r1] = requestToTwinId[r2]) => r1 = r2

\* C19, amended: a twin id has one simulation-parameter slot, which holds the
\* parameters of the latest simulation request for it (nothing before the first);
\* any number of unresolved requests may target the twin at once, and at most one
\* of them is ever applied: once one is, every callback for another is rejected
\* with AlreadyRevealed.
C19_OneSlotOneResultPerTwin ==
    \A t \in 1..twinCount :
        /\ SuccessesForTwin(t) <= 1
        /\ \A r \in SimulationRequestsFor(t), c \in ClearTexts, p \in BOOLEAN :
               SuccessesForTwin(t) = 1 => ProcessOutcome(r, c, p) = AlreadyRevealed
        /\ IF SimulationRequestsFor(t) = {}
           THEN encryptedSimulations[t] = NoParams
           ELSE LET latest == CHOOSE r \in SimulationRequestsFor(t) :
                                  \A q \in SimulationRequestsFor(t) : q <= r
                IN  encryptedSimulations[t] \in
                        {[encryptedDrugCompound |-> SimulationInputs(latest)[1],
                          encryptedDosage |-> SimulationInputs(latest)[2],
                          encryptedProcedureType |-> AsEuint32(0)],
                         [encryptedDrugCompound |-> AsEuint32(0),
                          encryptedDosage |-> AsEuint32(0),
                          encryptedProcedureType |-> SimulationInputs(latest)[3]]}

\* Two requests targeted one twin at once; the callback of the later one was
\* applied, and the earlier one, still unresolved in the tracker, is now rejected.
C19_Witness ==
    \E t \in 1..twinCount, r1 \in ReqIds, r2 \in ReqIds :
        /\ r1 < r2
        /\ {r1, r2} \subseteq SimulationRequestsFor(t)
        /\ SuccessesForRequest(r2) = 1
        /\ SuccessesForRequest(r1) = 0
        /\ ProcessOutcome(r1, [decodes |-> TRUE, strings |-> <<"heart">>], TRUE) = AlreadyRevealed

----------------------------------------------------------------------------
(* C20 *)

\* C20: processSimulationResult checks, in this order, that the request id is
\* known, that the result of its twin is not yet revealed, and that the proof
\* verifies: with an unregistered id it fails with UnknownRequest whatever the
\* proof; with a registered id whose twin is revealed it fails with AlreadyRevealed
\* even when the proof is invalid; it fails with InvalidProof only for a registered
\* id whose twin is unrevealed; and a call that fails in one of these three ways
\* changes no state.
C20_ChecksInOrder ==
    /\ [](\A r \in ReqIds, c \in ClearTexts :
            /\ ~Registered(r) =>
                   \A p \in BOOLEAN : ProcessOutcome(r, c, p) = UnknownRequest
            /\ (Registered(r) /\ TargetRevealed(r)) =>
                   ProcessOutcome(r, c, FALSE) = AlreadyRevealed
            /\ \A p \in BOOLEAN :
                   ProcessOutcome(r, c, p) = InvalidProof =>
                       (/\ Registered(r)
                        /\ requestToTwinId[r] # 0
                        /\ ~decryptedResults[requestToTwinId[r]].isRevealed
                        /\ ~p))
    /\ [][\/ UNCHANGED <<state, completions, countCallbacks>>
          \/ \A r \in ReqIds, c \in ClearTexts, p \in BOOLEAN :
                 ~(/\ ProcessOutcome(r, c, p) \in
                          {UnknownRequest, AlreadyRevealed, InvalidProof}
                   /\ processSimulationResult(r, c, p))]_vars

\* The three cases side by side, each with an invalid proof: id 0, never
\* registered, is unknown; one registered id, whose twin is revealed, is already
\* processed; another registered id, whose twin is unrevealed, fails for the proof.
C20_Witness ==
    \E ra \in ReqIds, rb \in ReqIds, c \in ClearTexts :
        /\ c.decodes /\ Len(c.strings) > 0
        /\ ~Registered(0) /\ ProcessOutcome(0, c, FALSE) = UnknownRequest
        /\ Registered(ra) /\ TargetRevealed(ra)
        /\ ProcessOutcome(ra, c, FALSE) = AlreadyRevealed
        /\ Registered(rb) /\ ~TargetRevealed(rb)
        /\ ProcessOutcome(rb, c, FALSE) = InvalidProof

----------------------------------------------------------------------------
(* C21 *)

\* C21: a processSimulationResult call that fails for its proof, for a pending
\* request id whose twin is unrevealed, does not consume the request: the entry and
\* the unrevealed result are as before, and a call for the same id with a proof
\* that verifies (and clear values that decode to a non-empty list) succeeds and
\* reveals the result.
C21_FailedProofKeepsRequestPending ==
    /\ [](\A r \in ReqIds, c \in ClearTexts :
            ProcessOutcome(r, c, FALSE) = InvalidProof =>
                \A c2 \in ClearTexts :
                    (c2.decodes /\ Len(c2.strings) > 0) =>
                        ProcessOutcome(r, c2, TRUE) = NoError)
    /\ [][\A r \in ReqIds, c \in ClearTexts :
             /\ (ProcessOutcome(r, c, FALSE) = InvalidProof
                     /\ processSimulationResult(r, c, FALSE)) =>
                    (/\ requestToTwinId'[r] = requestToTwinId[r]
                     /\ ~decryptedResults'[requestToTwinId[r]].isRevealed
                     /\ ProcessOutcome(r, c, FALSE)' = InvalidProof)
             /\ (ProcessOutcome(r, c, TRUE) = NoError
                     /\ processSimulationResult(r, c, TRUE)) =>
                    (/\ decryptedResults'[requestToTwinId[r]].isRevealed
                     /\ SuccessesForRequest(r)' = SuccessesForRequest(r) + 1)]_vars

\* One request has been applied with a valid proof and revealed its twin; another
\* request, for another twin, is pending: a callback with a failing proof is
\* rejected for the proof, one with a valid proof would be applied.
C21_Witness ==
    \E r1 \in ReqIds, r2 \in ReqIds, c \in ClearTexts :
        /\ SuccessesForRequest(r1) = 1
        /\ decryptedResults[requestToTwinId[r1]].isRevealed
        /\ Pending(r2)
        /\ requestToTwinId[r2] \in 1..twinCount
        /\ ProcessOutcome(r2, c, FALSE) = InvalidProof
        /\ ProcessOutcome(r2, c, TRUE) = NoError

----------------------------------------------------------------------------
(* C22 *)

\* C22: every allocated twin id is in one of NoSimulation, Pending, Revealed; a twin
\* starts in NoSimulation; the only changes are NoSimulation -> Pending, in a
\* successful simulation request for that twin, and Pending -> Revealed, in a
\* successful processSimulationResult for a request id registered for that twin; a
\* revealed twin has had a simulation request, and Revealed is never left.
C22_TwinStateMachine ==
    /\ [](\A t \in 1..twinCount :
            /\ TwinPhase(t) \in {"NoSimulation", "Pending", "Revealed"}
            /\ TwinPhase(t) = "Revealed" =>
                   (SimulationRequestsFor(t) # {} /\ EventCount("SimulationRequested", t) >= 1))
    /\ [][/\ \A t \in TwinIds :
                (twinCount' # twinCount /\ t = twinCount') =>
                    TwinPhase(t)' = "NoSimulation"
          /\ \A t \in 1..twinCount :
                \/ TwinPhase(t)' = TwinPhase(t)
                \/ /\ TwinPhase(t) = "NoSimulation" /\ TwinPhase(t)' = "Pending"
                   /\ RequestSimulationOutcome(t) = NoError
                   /\ (DrugCall(t) \/ SurgeryCall(t))
                \/ /\ TwinPhase(t) = "Pending" /\ TwinPhase(t)' = "Revealed"
                   /\ \E r \in SimulationRequestsFor(t), c \in ClearTexts :
                          /\ ProcessOutcome(r, c, TRUE) = NoError
                          /\ processSimulationResult(r, c, TRUE)]_vars

\* The three phases side by side: of two twins one is revealed and the other has a
\* pending request or none, after both changes have happened to the first.
C22_Witness ==
    /\ twinCount = 2
    /\ \E a \in 1..2, b \in 1..2 :
          /\ TwinPhase(a) = "Revealed" /\ SuccessesForTwin(a) = 1
          /\ TwinPhase(b) = "Pending"
          /\ \E r \in SimulationRequestsFor(b) : Pending(r)

----------------------------------------------------------------------------
(* C23 *)

\* C23: a simulation request for a twin whose result is already revealed is
\* accepted like any other: it stores the parameters, sends an oracle request,
\* registers the new request id for the twin and emits SimulationRequested; but
\* every processSimulationResult call for the new id fails with AlreadyRevealed, in
\* the state reached and ever after, so the new entry is never applied.
C23_RequestAfterRevealNeverCompletes ==
    /\ [](\A t \in 1..twinCount :
            decryptedResults[t].isRevealed => RequestSimulationOutcome(t) = NoError)
    /\ [][/\ \A t \in 1..twinCount, new \in 1..MaxRequests :
                (/\ decryptedResults[t].isRevealed
                 /\ new = nextRequestId
                 /\ (DrugCall(t) \/ SurgeryCall(t))) =>
                    (/\ encryptedSimulations'[t] # encryptedSimulations[t]
                     /\ oracleRequests[new] = NoRequest
                     /\ oracleRequests'[new].selector = SelProcess
                     /\ Len(oracleRequests'[new].ciphertexts) = 4
                     /\ requestToTwinId'[new] = t
                     /\ events' = Emit(SimulationRequested(t))
                     /\ \A c \in ClearTexts, p \in BOOLEAN :
                            ProcessOutcome(new, c, p)' = AlreadyRevealed)
          /\ \A r \in ReqIds :
                (TargetRevealed(r) /\ SuccessesForRequest(r) = 0) =>
                    (/\ SuccessesForRequest(r)' = 0
                     /\ \A c \in ClearTexts, p \in BOOLEAN :
                            ProcessOutcome(r, c, p)' = AlreadyRevealed)]_vars

\* A twin was revealed by its first request; a second request for it has been
\* accepted since (two SimulationRequested events, the slot holds the second
\* request's parameters) and its callback is rejected as already processed.
C23_Witness ==
    \E t \in 1..twinCount, r1 \in ReqIds, r2 \in ReqIds :
        /\ r1 < r2
        /\ SimulationRequestsFor(t) = {r1, r2}
        /\ SuccessesForRequest(r1) = 1
        /\ SuccessesForRequest(r2) = 0
        /\ EventCount("SimulationRequested", t) = 2
        /\ encryptedSimulations[t].encryptedDrugCompound = SimulationInputs(r2)[1]
        /\ \A c \in ClearTexts, p \in BOOLEAN : ProcessOutcome(r2, c, p) = AlreadyRevealed

----------------------------------------------------------------------------
(* C24 *)

\* C24: callbacks for different twins do not depend on the order of arrival: for
\* two request ids with different targets whose callbacks (valid proof, clear
\* values c1 and c2) would each succeed, the second still succeeds after the first
\* in either order, and both orders leave the same results for all twins and the
\* same counter for every organ type.
C24_CallbacksCommute ==
    /\ [](\A r1 \in ReqIds, r2 \in ReqIds, c1 \in ClearTexts, c2 \in ClearTexts :
            (/\ requestToTwinId[r1] # requestToTwinId[r2]
             /\ ProcessOutcome(r1, c1, TRUE) = NoError
             /\ ProcessOutcome(r2, c2, TRUE) = NoError) =>
                LET t1 == requestToTwinId[r1]
                    t2 == requestToTwinId[r2]
                    after1 == RevealedResults(decryptedResults, t1, c1.strings)
                    after2 == RevealedResults(decryptedResults, t2, c2.strings)
                IN  /\ NotYetRevealed(after1[t2])
                    /\ NotYetRevealed(after2[t1])
                    /\ RevealedResults(after1, t2, c2.strings) =
                           RevealedResults(after2, t1, c1.strings)
                    /\ IncrementedCount(IncrementedCount(encryptedOrganTypeCount,
                                                         c1.strings[1]), c2.strings[1]) =
                           IncrementedCount(IncrementedCount(encryptedOrganTypeCount,
                                                             c2.strings[1]), c1.strings[1]))
    /\ [][\A r1 \in ReqIds, c1 \in ClearTexts :
             (ProcessOutcome(r1, c1, TRUE) = NoError
                  /\ processSimulationResult(r1, c1, TRUE)) =>
                 \A r2 \in ReqIds, c2 \in ClearTexts :
                     (/\ requestToTwinId[r1] # requestToTwinId[r2]
                      /\ ProcessOutcome(r2, c2, TRUE) = NoError) =>
                         /\ ProcessOutcome(r2, c2, TRUE)' = NoError
                         /\ RevealedResults(decryptedResults', requestToTwinId[r2], c2.strings) =
                                RevealedResults(RevealedResults(decryptedResults,
                                                                requestToTwinId[r2], c2.strings),
                                                requestToTwinId[r1], c1.strings)
                         /\ IncrementedCount(encryptedOrganTypeCount', c2.strings[1]) =
                                IncrementedCount(IncrementedCount(encryptedOrganTypeCount,
                                                                  c2.strings[1]),
                                                 c1.strings[1])]_vars

\* Two requests for two different twins are pending and the callback of either
\* would be applied, with clear values that name different organ types.
C24_Witness ==
    \E r1 \in ReqIds, r2 \in ReqIds :
        /\ requestToTwinId[r1] \in 1..twinCount
        /\ requestToTwinId[r2] \in 1..twinCount
        /\ requestToTwinId[r1] # requestToTwinId[r2]
        /\ Pending(r1) /\ Pending(r2)
        /\ ProcessOutcome(r1, [decodes |-> TRUE, strings |-> <<"heart">>], TRUE) = NoError
        /\ ProcessOutcome(r2, [decodes |-> TRUE, strings |-> <<"liver">>], TRUE) = NoError

----------------------------------------------------------------------------
(* C25 *)

\* C25: every simulation request that succeeds sends the oracle exactly four
\* ciphertexts, in this order: the organ-type, physiological-data and
\* genetic-markers ciphertexts stored for the twin (for an allocated twin, the ones
\* given at its creation), then the drug compound for a drug simulation or the
\* procedure type for a surgery simulation; and it stores the parameters with the
\* unused branch set to an encrypted zero.
C25_PayloadOfFourInFixedOrder ==
    [][\A t \in TwinIds, new \in 1..MaxRequests :
          (new = nextRequestId /\ RequestSimulationOutcome(t) = NoError) =>
              /\ DrugCall(t) =>
                     (/\ oracleRequests'[new].ciphertexts =
                             <<encryptedOrganTwins[t].encryptedOrganType,
                               encryptedOrganTwins[t].encryptedPhysioData,
                               encryptedOrganTwins[t].encryptedGeneticMarkers,
                               SimulationInputs(new)[1]>>
                      /\ encryptedSimulations'[t] =
                             [encryptedDrugCompound |-> SimulationInputs(new)[1],
                              encryptedDosage |-> SimulationInputs(new)[2],
                              encryptedProcedureType |-> AsEuint32(0)])
              /\ SurgeryCall(t) =>
                     (/\ oracleRequests'[new].ciphertexts =
                             <<encryptedOrganTwins[t].encryptedOrganType,
                               encryptedOrganTwins[t].encryptedPhysioData,
                               encryptedOrganTwins[t].encryptedGeneticMarkers,
                               SimulationInputs(new)[3]>>
                      /\ encryptedSimulations'[t] =
                             [encryptedDrugCompound |-> AsEuint32(0),
                              encryptedDosage |-> AsEuint32(0),
                              encryptedProcedureType |-> SimulationInputs(new)[3]])
              /\ (DrugCall(t) \/ SurgeryCall(t)) =>
                     (/\ Len(oracleRequests'[new].ciphertexts) = 4
                      /\ t \in 1..twinCount =>
                             SubSeq(oracleRequests'[new].ciphertexts, 1, 3) = TwinInputs(t))]_vars

\* A drug simulation was requested for one twin and a surgery simulation for
\* another: each payload holds the twin's three ciphertexts and then the compound,
\* or the procedure type, and each slot has zeros in the unused branch.
C25_Witness ==
    \E a \in 1..twinCount, b \in 1..twinCount, r1 \in ReqIds, r2 \in ReqIds :
        /\ a # b
        /\ requestToTwinId[r1] = a /\ requestToTwinId[r2] = b
        /\ oracleRequests[r1].ciphertexts =
               <<TwinInputs(a)[1], TwinInputs(a)[2], TwinInputs(a)[3], SimulationInputs(r1)[1]>>
        /\ oracleRequests[r2].ciphertexts =
               <<TwinInputs(b)[1], TwinInputs(b)[2], TwinInputs(b)[3], SimulationInputs(r2)[3]>>
        /\ encryptedSimulations[a].encryptedProcedureType = AsEuint32(0)
        /\ encryptedSimulations[b].encryptedDrugCompound = AsEuint32(0)
        /\ encryptedSimulations[b].encryptedDosage = AsEuint32(0)

----------------------------------------------------------------------------
(* C26 *)

\* C26: a twin record never changes after its creation: the id, the three
\* ciphertext handles and the creation time of every allocated twin are the same
\* after every step, whichever function is called, and they are the ones given at
\* its creation; no twin is deleted (twinCount never decreases and every allocated
\* id keeps its record); simulation requests and callbacks leave twinCount as it is.
C26_TwinRecordImmutable ==
    /\ [](\A t \in 1..twinCount :
            /\ GetTwin(t).twinId = t
            /\ <<GetTwin(t).encryptedOrganType, GetTwin(t).encryptedPhysioData,
                 GetTwin(t).encryptedGeneticMarkers>> = TwinInputs(t)
            /\ GetTwin(t).creationTime \in 2..now)
    /\ [][/\ twinCount' >= twinCount
          /\ \A t \in 1..twinCount : GetTwin(t)' = GetTwin(t)
          /\ \/ twinCount' = twinCount
             \/ ~(\/ \E twinId \in TwinIds : DrugCall(twinId) \/ SurgeryCall(twinId)
                  \/ \E organType \in Categories : CountCall(organType)
                  \/ \E r \in ReqIds, c \in ClearTexts, p \in BOOLEAN :
                         processSimulationResult(r, c, p)
                  \/ \E r \in ReqIds, c \in ClearCounts, p \in BOOLEAN :
                         decryptOrganTypeCount(r, c, p))]_vars

\* Two twins exist, created at different times; the first has since had a
\* simulation requested and completed and its count requested, and still holds the
\* three ciphertexts and the time of its creation.
C26_Witness ==
    /\ twinCount = 2
    /\ GetTwin(1).creationTime < GetTwin(2).creationTime
    /\ <<GetTwin(1).encryptedOrganType, GetTwin(1).encryptedPhysioData,
         GetTwin(1).encryptedGeneticMarkers>> = TwinInputs(1)
    /\ decryptedResults[1].isRevealed
    /\ \E r \in ReqIds : oracleRequests[r].selector = SelDecryptCount

----------------------------------------------------------------------------
(* C27 *)

\* C27: SimulationCompleted is emitted for an id at most once, in the very step
\* that sets the revealed flag of that id, and it carries that id and the risk text
\* written to its result; a callback that fails emits nothing; every simulation
\* request that succeeds emits exactly one SimulationRequested for its twin id.
C27_EventsFollowTheState ==
    /\ [](/\ \A id \in ResultKeys :
                EventCount("SimulationCompleted", id) =
                    (IF decryptedResults[id].isRevealed THEN 1 ELSE 0)
          /\ \A e \in BagToSet(events) :
                e.name = "SimulationCompleted" =>
                    (/\ e.id \in ResultKeys
                     /\ decryptedResults[e.id].isRevealed
                     /\ e.riskLevel = decryptedResults[e.id].riskAssessment)
          /\ \A t \in TwinIds :
                EventCount("SimulationRequested", t) = Cardinality(SimulationRequestsFor(t)))
    /\ [][/\ \A id \in ResultKeys :
                (decryptedResults'[id].isRevealed /\ ~decryptedResults[id].isRevealed)
                    <=> events' = Emit(SimulationCompleted(id, decryptedResults'[id].riskAssessment))
          /\ \A t \in TwinIds, new \in 1..MaxRequests :
                (/\ new = nextRequestId
                 /\ RequestSimulationOutcome(t) = NoError
                 /\ (DrugCall(t) \/ SurgeryCall(t))) =>
                    events' = Emit(SimulationRequested(t))
          /\ \/ events' = events
             \/ \A r \in ReqIds, c \in ClearTexts, p \in BOOLEAN :
                    ~(ProcessOutcome(r, c, p) # NoError /\ processSimulationResult(r, c, p))]_vars

\* A twin has been requested twice and revealed once: two SimulationRequested
\* events and one SimulationCompleted event carry its id, the latter with the risk
\* text of its result.
C27_Witness ==
    \E t \in 1..twinCount :
        /\ EventCount("SimulationRequested", t) = 2
        /\ EventCount("SimulationCompleted", t) = 1
        /\ SimulationCompleted(t, "Low risk of arrhythmia") \in BagToSet(events)
        /\ decryptedResults[t].riskAssessment = "Low risk of arrhythmia"

----------------------------------------------------------------------------
(* C28 *)

\* C28: every id whose result is revealed is an allocated twin id, between 1 and
\* twinCount: no result slot is written for an id that createEncryptedTwin did not
\* allocate.
C28_OnlyAllocatedTwinsRevealed ==
    \A id \in ResultKeys :
        decryptedResults[id] # EmptyResult => id \in 1..twinCount

----------------------------------------------------------------------------
(* C29 *)

\* C29: the counts of the listed organ types add up to the number of ids whose
\* result is revealed: a successful processSimulationResult adds one to both, and
\* no other step changes either.
C29_CountsAddUpToRevealed ==
    /\ [](SumOfCounts(organTypeList) = Cardinality(RevealedIds))
    /\ [][/\ \A r \in ReqIds, c \in ClearTexts :
                (ProcessOutcome(r, c, TRUE) = NoError
                     /\ processSimulationResult(r, c, TRUE)) =>
                    (/\ SumOfCounts(organTypeList)' = SumOfCounts(organTypeList) + 1
                     /\ RevealedIds' = RevealedIds \cup {requestToTwinId[r]}
                     /\ requestToTwinId[r] \notin RevealedIds)
          /\ (SumOfCounts(organTypeList)' # SumOfCounts(organTypeList)
                  \/ RevealedIds' # RevealedIds) =>
                 (\E r \in ReqIds, c \in ClearTexts :
                      /\ ProcessOutcome(r, c, TRUE) = NoError
                      /\ processSimulationResult(r, c, TRUE))]_vars

\* Two twins exist and two results are revealed, by callbacks that named two
\* different organ types: two listed counters of one each add up to two.
C29_Witness ==
    /\ Cardinality(RevealedIds) = 2
    /\ SumOfCounts(organTypeList) = 2
    /\ Len(organTypeList) = 2
    /\ twinCount = 2

----------------------------------------------------------------------------
(* C30 *)

\* C30: if the oracle eventually answers every request id it issued with a valid
\* callback, every allocated twin for which a simulation request has succeeded is
\* eventually revealed, in whatever order the callbacks arrive and whatever failing
\* or duplicate callbacks come in between.
C30_RequestedTwinEventuallyRevealed ==
    \A t \in 1..MaxTwins :
        (t \in 1..twinCount /\ SimulationRequestsFor(t) # {})
            ~> decryptedResults[t].isRevealed

\* The callbacks arrived out of order: the later of two requests, for two
\* different twins, has been answered and has revealed its twin while the earlier
\* one is still pending.
C30_Witness ==
    \E r1 \in ReqIds, r2 \in ReqIds :
        /\ r1 < r2
        /\ requestToTwinId[r1] \in 1..twinCount
        /\ requestToTwinId[r2] \in 1..twinCount
        /\ requestToTwinId[r1] # requestToTwinId[r2]
        /\ Pending(r1)
        /\ SuccessesForRequest(r2) = 1
        /\ decryptedResults[requestToTwinId[r2]].isRevealed
        /\ ~decryptedResults[requestToTwinId[r1]].isRevealed

====
